---- MODULE Spec2Model ----
(***************************************************************************)
(* A model of the k-NN classifier of src/src/lib.rs: the store             *)
(* (KnnClassifier: k, items), its operations (new, fit, fit_one,           *)
(* predict_one, predict, to_csv, from_csv) and the text functions of the   *)
(* standard library they rest on (lines, trim, split, f64 parse/to_string).*)
(*                                                                         *)
(* Text is a sequence of one-character strings.  An f64 is modelled on the *)
(* finite decimals: the record [m, e] stands for m * 10^-e, normalised so  *)
(* that e = 0 or m is not a multiple of 10.  Two short decimal numerals    *)
(* denote the same f64 exactly when they normalise to the same record, and *)
(* Display prints that shortest decimal.  NaN, the infinities, negative    *)
(* zero and exponent notation are outside the modelled domain (the data    *)
(* model is over real numbers).                                            *)
(***************************************************************************)
EXTENDS Integers, Sequences, FiniteSets, TLC

VARIABLES requested, k, items, call, before, ret, outcome

vars == <<requested, k, items, call, before, ret, outcome>>

----------------------------------------------------------------------------
(* Bounds of the model. *)

\* largest k requested of new
MaxReq == 4
\* cap on the number of stored points under Spec
MaxItems == 3
\* longest text handed to from_csv under SpecCsv
MaxText == 4

----------------------------------------------------------------------------
(* Text: the standard-library functions used by to_csv and from_csv. *)

\* char::is_whitespace, on the characters the model uses
WS == {" ", "\t", "\r", "\n"}

Digits == {"0", "1", "2", "3", "4", "5", "6", "7", "8", "9"}

DigitVal(c) ==
  CASE c = "0" -> 0 [] c = "1" -> 1 [] c = "2" -> 2 [] c = "3" -> 3
    [] c = "4" -> 4 [] c = "5" -> 5 [] c = "6" -> 6 [] c = "7" -> 7
    [] c = "8" -> 8 [] c = "9" -> 9

DigitChar(d) ==
  CASE d = 0 -> "0" [] d = 1 -> "1" [] d = 2 -> "2" [] d = 3 -> "3"
    [] d = 4 -> "4" [] d = 5 -> "5" [] d = 6 -> "6" [] d = 7 -> "7"
    [] d = 8 -> "8" [] d = 9 -> "9"

SetMin(S) == CHOOSE x \in S : \A y \in S : x <= y
SetMax(S) == CHOOSE x \in S : \A y \in S : y <= x

RECURSIVE Pow10(_)
Pow10(n) == IF n = 0 THEN 1 ELSE 10 * Pow10(n - 1)

\* str::trim: the text without its leading and trailing whitespace
Trim(s) ==
  LET keep == {i \in 1..Len(s) : s[i] \notin WS}
  IN  IF keep = {} THEN <<>> ELSE SubSeq(s, SetMin(keep), SetMax(keep))

\* str::split(char): the pieces between the occurrences of d; n occurrences
\* give n + 1 pieces, empty ones included
Split(s, d) ==
  LET P      == {i \in 1..Len(s) : s[i] = d}
      nth(j) == CHOOSE p \in P : Cardinality({q \in P : q < p}) = j - 1
      n      == Cardinality(P)
      from(j) == IF j = 1 THEN 1 ELSE nth(j - 1) + 1
      to(j)   == IF j = n + 1 THEN Len(s) ELSE nth(j) - 1
  IN  [j \in 1..(n + 1) |-> SubSeq(s, from(j), to(j))]

\* str::lines: the pieces between line feeds, each without the carriage
\* return that precedes its line feed; an empty piece after the last line
\* feed is no line
Lines(s) ==
  LET raw  == Split(s, "\n")
      n    == Len(raw)
      cnt  == IF raw[n] = <<>> THEN n - 1 ELSE n
      strip(j) ==
        LET p == raw[j]
        IN  IF j < n /\ Len(p) > 0 /\ p[Len(p)] = "\r"
              THEN SubSeq(p, 1, Len(p) - 1) ELSE p
  IN  [j \in 1..cnt |-> strip(j)]

----------------------------------------------------------------------------
(* f64 on the finite decimals. *)

Num(m, e) == [m |-> m, e |-> e]

RECURSIVE Normalize(_)
Normalize(x) ==
  IF x.m = 0 THEN Num(0, 0)
  ELSE IF x.e > 0 /\ x.m % 10 = 0 THEN Normalize(Num(x.m \div 10, x.e - 1))
  ELSE x

RECURSIVE DigitsToNat(_)
DigitsToNat(ds) ==
  IF ds = <<>> THEN 0
  ELSE 10 * DigitsToNat(SubSeq(ds, 1, Len(ds) - 1)) + DigitVal(ds[Len(ds)])

RECURSIVE NatToDigits(_)
NatToDigits(n) ==
  IF n < 10 THEN <<DigitChar(n)>>
  ELSE Append(NatToDigits(n \div 10), DigitChar(n % 10))

RECURSIVE PadLeft(_, _)
PadLeft(ds, width) == IF Len(ds) >= width THEN ds ELSE PadLeft(<<"0">> \o ds, width)

\* <f64 as FromStr>::from_str on texts of sign, digits and point:
\* [+-]? (digits+ ('.' digits*)? | '.' digits+); anything else is an error
ParseF64(s) ==
  LET n      == Len(s)
      signed == n >= 1 /\ s[1] \in {"+", "-"}
      body   == IF signed THEN SubSeq(s, 2, n) ELSE s
      dots   == {i \in 1..Len(body) : body[i] = "."}
      ndig   == Cardinality({i \in 1..Len(body) : body[i] \in Digits})
      valid  == /\ \A i \in 1..Len(body) : body[i] \in Digits \cup {"."}
                /\ Cardinality(dots) <= 1
                /\ ndig >= 1
      dot    == IF dots = {} THEN Len(body) + 1 ELSE SetMin(dots)
      ip     == SubSeq(body, 1, dot - 1)
      fp     == SubSeq(body, dot + 1, Len(body))
      mag    == DigitsToNat(ip \o fp)
  IN  IF valid
        THEN [ok |-> TRUE,
              val |-> Normalize(Num(IF signed /\ s[1] = "-" THEN 0 - mag ELSE mag,
                                    Len(fp)))]
        ELSE [ok |-> FALSE, val |-> Num(0, 0)]

\* f64::to_string (Display): the shortest decimal that reads back as the
\* value: no exponent, no point for an integer, no trailing zeros
F64ToString(x) ==
  LET a    == IF x.m < 0 THEN 0 - x.m ELSE x.m
      ip   == a \div Pow10(x.e)
      fp   == a % Pow10(x.e)
      sign == IF x.m < 0 THEN <<"-">> ELSE <<>>
      frac == IF x.e > 0 THEN <<".">> \o PadLeft(NatToDigits(fp), x.e) ELSE <<>>
  IN  sign \o NatToDigits(ip) \o frac

----------------------------------------------------------------------------
(* The store: KnnClassifier {k, items}, KnnItem {label, data}. *)

KnnItem(label, data) == [label |-> label, data |-> data]

\* new_keeps_even: a constructor without the step that makes k odd
new_keeps_even(req) == [k |-> IF req > 0 THEN req ELSE 5, items |-> <<>>]

\* KnnClassifier::new
new(req) ==
  LET k1 == IF req > 0 THEN req ELSE 5
      k2 == IF k1 % 2 = 1 THEN k1 ELSE k1 + 1
  IN  [k |-> k2, items |-> <<>>]

\* fit_replaces: a fit that stores the new pairs in place of the old points
fit_replaces(its, data, labels) ==
  LET n == IF Len(data) < Len(labels) THEN Len(data) ELSE Len(labels)
  IN  [i \in 1..n |-> KnnItem(labels[i], data[i])]

\* KnnClassifier::fit: zip of data and labels, each pair pushed in order
fit(its, data, labels) ==
  LET n == IF Len(data) < Len(labels) THEN Len(data) ELSE Len(labels)
  IN  its \o [i \in 1..n |-> KnnItem(labels[i], data[i])]

\* fit_one_front: a fit_one that inserts at the front instead of pushing
fit_one_front(its, data, label) == <<KnnItem(label, data)>> \o its

\* KnnClassifier::fit_one
fit_one(its, data, label) == Append(its, KnnItem(label, data))

----------------------------------------------------------------------------
(* Prediction. *)

\* the largest number of fractional digits among the values compared
MaxExp(its, item) ==
  SetMax({0} \cup {item[j].e : j \in 1..Len(item)}
             \cup UNION {{its[i].data[j].e : j \in 1..Len(its[i].data)} :
                          i \in 1..Len(its)})

RECURSIVE SumSq(_, _, _, _)
SumSq(a, b, n, E) ==
  IF n = 0 THEN 0
  ELSE LET x == a[n].m * Pow10(E - a[n].e)
           y == b[n].m * Pow10(E - b[n].e)
       IN  SumSq(a, b, n - 1, E) + (x - y) * (x - y)

\* calc_distance: zip of a and b, squares of the differences summed.  The
\* model keeps the sum itself, in units of 10^-2E: the square root is
\* strictly increasing and predict_one only compares distances.  On
\* integers and halves of the model's size f64 computes the sum exactly.
calc_distance(a, b, E) ==
  SumSq(a, b, IF Len(a) < Len(b) THEN Len(a) ELSE Len(b), E)

\* the (index, distance) pairs of predict_one, as a function of the index
Distances(its, item) ==
  LET E == MaxExp(its, item)
  IN  [i \in 1..Len(its) |-> calc_distance(its[i].data, item, E)]

\* InsertUnstable: an insertion that puts x before the entries equal to it
InsertUnstable(s, x, d) ==
  LET pos == Cardinality({j \in 1..Len(s) : d[s[j]] < d[x]})
  IN  SubSeq(s, 1, pos) \o <<x>> \o SubSeq(s, pos + 1, Len(s))

\* one step of the stable sort: x goes after every entry not greater than it
Insert(s, x, d) ==
  LET pos == Cardinality({j \in 1..Len(s) : d[s[j]] <= d[x]})
  IN  SubSeq(s, 1, pos) \o <<x>> \o SubSeq(s, pos + 1, Len(s))

\* slice::sort_by with the distance comparator: a stable sort of the indices
RECURSIVE SortByDistance(_, _)
SortByDistance(n, d) ==
  IF n = 0 THEN <<>> ELSE Insert(SortByDistance(n - 1, d), n, d)

\* Iterator::take
Take(s, n) == SubSeq(s, 1, IF n < Len(s) THEN n ELSE Len(s))

\* counter_map: the labels of the k nearest points, each with its count
CounterMap(its, kk, item) ==
  LET near == Take(SortByDistance(Len(its), Distances(its, item)), kk)
      keys == {its[near[j]].label : j \in 1..Len(near)}
  IN  [l \in keys |-> Cardinality({j \in 1..Len(near) : its[near[j]].label = l})]

\* max_by_key over the HashMap's iterator: the last entry of maximal count in
\* iteration order.  The map is hashed with a RandomState of its own, so the
\* order is any order: every key of maximal count can be the result.
MaxByKey(cm) ==
  {l \in DOMAIN cm : \A o \in DOMAIN cm : cm[o] <= cm[l]}

\* KnnClassifier::predict_one: the labels the call can return; none when the
\* store is empty (max_by_key gives None and unwrap panics)
predict_one(its, kk, item) == MaxByKey(CounterMap(its, kk, item))

----------------------------------------------------------------------------
(* CSV export and import. *)

\* String::pop: the text without its last character
Pop(s) == IF s = <<>> THEN s ELSE SubSeq(s, 1, Len(s) - 1)

\* the inner loop of to_csv: each value's text, then the delimiter
RECURSIVE PushData(_, _, _, _)
PushData(s, data, j, delimiter) ==
  IF j > Len(data) THEN s
  ELSE PushData(s \o F64ToString(data[j]) \o <<delimiter>>, data, j + 1, delimiter)

RECURSIVE ToCsvLoop(_, _, _, _)
ToCsvLoop(s, its, i, delimiter) ==
  IF i > Len(its) THEN s
  ELSE LET s1 == s \o its[i].label \o <<delimiter>>
           s2 == PushData(s1, its[i].data, 1, delimiter)
       IN  ToCsvLoop(Pop(s2) \o <<"\n">>, its, i + 1, delimiter)

\* KnnClassifier::to_csv
to_csv(its, delimiter) == ToCsvLoop(<<>>, its, 1, delimiter)

\* ParseFieldOrZero: a parse that falls back to zero (unwrap_or_default)
ParseFieldOrZero(d) == [ok |-> TRUE, val |-> ParseF64(Trim(d)).val]

\* d.trim().parse().unwrap(): ok is FALSE where unwrap panics
ParseField(d) == ParseF64(Trim(d))

\* the body of from_csv's loop for one trimmed, non-blank line: the item
\* built from its columns, and whether every parse succeeded
ParseRow(line, delimiter, label_col) ==
  LET cols   == Split(line, delimiter)
      label  == IF label_col + 1 <= Len(cols)
                  THEN Trim(cols[label_col + 1]) ELSE <<>>
      others == SelectSeq([j \in 1..Len(cols) |-> j],
                          LAMBDA j : j # label_col + 1)
      parsed == [n \in 1..Len(others) |-> ParseField(cols[others[n]])]
  IN  [ok |-> \A n \in 1..Len(others) : parsed[n].ok,
       it |-> KnnItem(label, [n \in 1..Len(others) |-> parsed[n].val])]

RECURSIVE FromCsvLoop(_, _, _, _, _, _)
FromCsvLoop(its, ls, i, delimiter, label_col, skip_header) ==
  IF i > Len(ls) THEN [items |-> its, outcome |-> "ok"]
  ELSE IF skip_header /\ i = 1
    THEN FromCsvLoop(its, ls, i + 1, delimiter, label_col, skip_header)
  ELSE LET line == Trim(ls[i])
       IN  IF line = <<>>
             THEN FromCsvLoop(its, ls, i + 1, delimiter, label_col, skip_header)
           ELSE LET r == ParseRow(line, delimiter, label_col)
                IN  IF r.ok
                      THEN FromCsvLoop(Append(its, r.it), ls, i + 1,
                                       delimiter, label_col, skip_header)
                      ELSE [items |-> its, outcome |-> "panic_parse_float"]

\* KnnClassifier::from_csv: the items after the call and how it ended; a
\* panic leaves the rows pushed before it in the store
from_csv(its, s, delimiter, label_col, skip_header) ==
  FromCsvLoop(its, Lines(s), 1, delimiter, label_col, skip_header)

----------------------------------------------------------------------------
(* Inputs of the operations. *)

N(i) == Num(i, 0)

FitLabels == {<<"a">>, <<"b">>}
FitData   == {<<N(0)>>, <<N(2)>>}

\* the (data, labels) arguments of fit: equal and unequal lengths, and a
\* label that holds a delimiter
FitDataLists  == {<<<<N(0)>>>>, <<<<N(2)>>, <<N(0)>>>>}
FitLabelLists == {<<>>, <<<<"a", ",", "b">>>>, <<<<"a">>, <<"b">>>>}

\* queries: at equal distance of 0 and 2; longer than the stored vectors
\* (zip pairs the first coordinate only); empty (every distance is 0)
Queries     == {<<N(1)>>, <<N(0), N(5)>>, <<>>}
QueryLists  == {<<>>, <<<<N(0), N(5)>>, <<N(1)>>>>}

Delimiters == {",", " "}
LabelCols  == {0, 1}

\* texts imported under Spec: spaces around fields, a trailing .0 and CR LF;
\* a header and a blank line; a field that is no number after a good row
Texts ==
  { <<"a", ",", "0", "\n", " ", "b", " ", ",", " ", "2", ".", "0", "\r", "\n">>,
    <<"h", ",", "x", "\n", "\n", "b", ",", "2">>,
    <<"a", ",", "0", "\n", "b", ",", "z", "\n">> }

\* texts imported under SpecCsv: every text of at most MaxText characters
Alphabet == {"a", "1", ",", " ", "\n", ".", "-"}
AllTexts == UNION {[1..n -> Alphabet] : n \in 0..MaxText}

\* the stores an import starts from under SpecCsv
BaseStores == {<<>>, <<KnnItem(<<"b">>, <<N(2)>>)>>}

----------------------------------------------------------------------------
(* The state machine.  call is the last call and its arguments, before the *)
(* items it started from, ret its return value, outcome how it ended.  A   *)
(* panic unwinds the thread that owns the store: no call follows it.       *)

NoCall ==
  [op |-> "new", data |-> <<>>, labels |-> <<>>, item |-> <<>>, text |-> <<>>,
   delimiter |-> "", label_col |-> 0, skip_header |-> FALSE]

Init ==
  \E r \in 0..MaxReq :
    /\ requested = r
    /\ k = new(r).k
    /\ items = new(r).items
    /\ call = NoCall
    /\ before = <<>>
    /\ ret = <<>>
    /\ outcome = "ok"

FitOne(data, label) ==
  /\ outcome = "ok"
  /\ Len(items) < MaxItems
  /\ items' = fit_one(items, data, label)
  /\ call' = [NoCall EXCEPT !.op = "fit_one", !.data = data, !.labels = label]
  /\ before' = items
  /\ ret' = <<>>
  /\ outcome' = "ok"
  /\ UNCHANGED <<requested, k>>

Fit(data, labels) ==
  /\ outcome = "ok"
  /\ Len(fit(items, data, labels)) <= MaxItems
  /\ items' = fit(items, data, labels)
  /\ call' = [NoCall EXCEPT !.op = "fit", !.data = data, !.labels = labels]
  /\ before' = items
  /\ ret' = <<>>
  /\ outcome' = "ok"
  /\ UNCHANGED <<requested, k>>

PredictOne(item) ==
  /\ outcome = "ok"
  /\ call' = [NoCall EXCEPT !.op = "predict_one", !.item = item]
  /\ before' = items
  /\ LET labels == predict_one(items, k, item)
     IN  IF labels = {}
           THEN ret' = <<>> /\ outcome' = "panic_none"
           ELSE ret' \in labels /\ outcome' = "ok"
  /\ UNCHANGED <<requested, k, items>>

\* KnnClassifier::predict: predict_one on each item, in order
Predict(its) ==
  /\ outcome = "ok"
  /\ call' = [NoCall EXCEPT !.op = "predict", !.item = its]
  /\ before' = items
  /\ IF \E i \in 1..Len(its) : predict_one(items, k, its[i]) = {}
       THEN ret' = <<>> /\ outcome' = "panic_none"
       ELSE /\ ret' \in {r \in [1..Len(its) -> {items[j].label : j \in 1..Len(items)}] :
                          \A i \in 1..Len(its) : r[i] \in predict_one(items, k, its[i])}
            /\ outcome' = "ok"
  /\ UNCHANGED <<requested, k, items>>

ToCsv(delimiter) ==
  /\ outcome = "ok"
  /\ call' = [NoCall EXCEPT !.op = "to_csv", !.delimiter = delimiter]
  /\ before' = items
  /\ ret' = to_csv(items, delimiter)
  /\ outcome' = "ok"
  /\ UNCHANGED <<requested, k, items>>

FromCsvCall(text, delimiter, label_col, skip_header) ==
  LET r == from_csv(items, text, delimiter, label_col, skip_header)
  IN  /\ outcome = "ok"
      /\ items' = r.items
      /\ call' = [NoCall EXCEPT !.op = "from_csv", !.text = text,
                                !.delimiter = delimiter, !.label_col = label_col,
                                !.skip_header = skip_header]
      /\ before' = items
      /\ ret' = <<>>
      /\ outcome' = r.outcome
      /\ UNCHANGED <<requested, k>>

FromCsv(text, delimiter, label_col, skip_header) ==
  /\ Len(items) + Len(Lines(text)) <= MaxItems
  /\ FromCsvCall(text, delimiter, label_col, skip_header)

\* export, then import into a fresh store of the same k (test_to_csv): ret is
\* the fresh store's items
RoundTrip(delimiter) ==
  LET s == to_csv(items, delimiter)
      c == new(k)
      r == from_csv(c.items, s, delimiter, 0, FALSE)
  IN  /\ outcome = "ok"
      /\ Len(items) >= 1
      /\ call' = [NoCall EXCEPT !.op = "round_trip", !.delimiter = delimiter,
                                !.text = s]
      /\ before' = items
      /\ ret' = r.items
      /\ outcome' = r.outcome
      /\ UNCHANGED <<requested, k, items>>

Next ==
  \/ \E data \in FitData, label \in FitLabels : FitOne(data, label)
  \/ \E data \in FitDataLists, labels \in FitLabelLists : Fit(data, labels)
  \/ \E item \in Queries : PredictOne(item)
  \/ \E its \in QueryLists : Predict(its)
  \/ \E d \in Delimiters : ToCsv(d)
  \/ \E text \in Texts, col \in LabelCols, skip \in BOOLEAN :
       FromCsv(text, ",", col, skip)
  \/ \E d \in Delimiters : RoundTrip(d)

Spec == Init /\ [][Next]_vars

(* One import of any short text into a store drawn from BaseStores. *)

InitCsv ==
  \E base \in BaseStores :
    /\ requested = 0
    /\ k = new(0).k
    /\ items = base
    /\ call = NoCall
    /\ before = <<>>
    /\ ret = <<>>
    /\ outcome = "ok"

NextCsv ==
  /\ call.op = "new"
  /\ \E text \in AllTexts, d \in Delimiters, col \in LabelCols, skip \in BOOLEAN :
       FromCsvCall(text, d, col, skip)

SpecCsv == InitCsv /\ [][NextCsv]_vars

----------------------------------------------------------------------------
(* Properties. *)

Min2(a, b) == IF a < b THEN a ELSE b

IsPrefix(s, t) == Len(s) <= Len(t) /\ SubSeq(t, 1, Len(s)) = s

\* C5: new(k) returns an empty store whose k is 5 for a request of 0, the
\* request plus 1 for an even positive request and the request itself for an
\* odd one: the stored k is positive and odd.
C5_KNormalized ==
  /\ k = (IF requested = 0 THEN 5
          ELSE IF requested % 2 = 0 THEN requested + 1 ELSE requested)
  /\ k > 0
  /\ k % 2 = 1
  /\ (call.op = "new" => items = <<>>)

C5_Witness == call.op = "new" /\ requested = 4 /\ k = 5 /\ items = <<>>

\* C8: fit(data, labels) appends exactly min(len(data), len(labels)) points,
\* the i-th with features data[i] and label labels[i]; the entries past the
\* shorter sequence are dropped without error and the points stored before
\* keep their values and positions.
C8_FitAppendsPairs ==
  call.op = "fit" =>
    LET n == Min2(Len(call.data), Len(call.labels))
    IN  /\ outcome = "ok"
        /\ Len(items) = Len(before) + n
        /\ \A i \in 1..Len(before) : items[i] = before[i]
        /\ \A i \in 1..n :
             /\ items[Len(before) + i].data = call.data[i]
             /\ items[Len(before) + i].label = call.labels[i]

C8_Witness ==
  /\ call.op = "fit"
  /\ Len(call.data) = 2
  /\ Len(call.labels) = 1
  /\ Len(before) >= 1
  /\ Len(items) = Len(before) + 1

\* C10: over every call, k keeps the value new gave it and the points only
\* grow at the end: the points stored before a call are a prefix of the
\* points after it, and predict_one, predict and to_csv change nothing.
C10_AppendOnly ==
  [][/\ k' = k
     /\ k = new(requested).k
     /\ IsPrefix(items, items')
     /\ (call'.op \in {"predict_one", "predict", "to_csv"} => items' = items)]_vars

C10_Witness ==
  /\ call.op = "from_csv"
  /\ Len(before) >= 1
  /\ Len(items) = Len(before) + 2
  /\ outcome = "ok"

\* the points voting on a query: those of rank below min(k, n) in the order
\* by ascending distance, points at equal distance in insertion order
NearestSet(its, kk, item) ==
  LET d       == Distances(its, item)
      rank(i) == Cardinality({j \in 1..Len(its) :
                    d[j] < d[i] \/ (d[j] = d[i] /\ j < i)})
  IN  {i \in 1..Len(its) : rank(i) < Min2(kk, Len(its))}

VoteCount(its, near, l) == Cardinality({i \in near : its[i].label = l})

\* C2: on a store of n >= 1 points predict_one returns a label whose count
\* is maximal among the first min(k, n) points by ascending distance, ties
\* in distance kept in insertion order; with n < k all n points vote.
C2_MajorityOfNearest ==
  (call.op = "predict_one" /\ Len(items) >= 1) =>
    LET near == NearestSet(items, k, call.item)
    IN  /\ outcome = "ok"
        /\ \E i \in near : items[i].label = ret
        /\ \A i \in near :
             VoteCount(items, near, items[i].label) <= VoteCount(items, near, ret)

\* two points at the query's distance, the older one alone votes (k = 1)
C2_Witness ==
  /\ call.op = "predict_one"
  /\ k = 1
  /\ Len(items) = 3
  /\ call.item = <<N(1)>>
  /\ items[1].data = <<N(0)>> /\ items[1].label = <<"b">>
  /\ items[2].data = <<N(2)>> /\ items[2].label = <<"a">>
  /\ ret = <<"b">>

\* C3: for fixed points, k and query every call of predict_one returns the
\* same label, also when several labels share the maximal count.
C3_Determinism ==
  [][(/\ call.op = "predict_one" /\ outcome = "ok"
      /\ call'.op = "predict_one" /\ outcome' = "ok"
      /\ call'.item = call.item
      /\ items' = items /\ k' = k)
     => ret' = ret]_vars

\* C4: predict_one, or predict with a non-empty input, on a store without
\* points ends in an error returned to the caller, not in a crash.
C4_EmptyModelError ==
  (/\ call.op \in {"predict_one", "predict"}
   /\ (call.op = "predict" => call.item # <<>>)
   /\ Len(before) = 0)
  => outcome = "error_empty_model"

\* C1: to_csv(d), then from_csv(text, d, 0, false) on a fresh store of the
\* same k, gives the points of the original store back: as many, in the same
\* order, with the same labels and feature values.
C1_RoundTrip ==
  call.op = "round_trip" => (outcome = "ok" /\ ret = items)

(* The rows of an import, stated on the text: the lines from_csv counts   *)
(* (not the skipped raw line 0, not blank after trimming) and the columns  *)
(* of each.                                                                *)

RowIndexes(text, skip_header) ==
  SelectSeq([i \in 1..Len(Lines(text)) |-> i],
            LAMBDA i : ~(skip_header /\ i = 1) /\ Trim(Lines(text)[i]) # <<>>)

RowColumns(text, i, delimiter) == Split(Trim(Lines(text)[i]), delimiter)

IsNumber(field) == ParseF64(Trim(field)).ok

\* row i holds a column other than the label column that is no number
BadRow(c, i) ==
  LET cols == RowColumns(c.text, i, c.delimiter)
  IN  \E j \in 1..Len(cols) : j # c.label_col + 1 /\ ~IsNumber(cols[j])

\* row i has no column at the label column's index
ShortRow(c, i) == Len(RowColumns(c.text, i, c.delimiter)) < c.label_col + 1

C7_LabelColumnOutOfRange ==
  call.op = "from_csv" =>
    LET rows == RowIndexes(call.text, call.skip_header)
    IN  (\E n \in 1..Len(rows) :
           /\ ShortRow(call, rows[n])
           /\ \A m \in 1..n : ~BadRow(call, rows[m]))
        => outcome # "ok"

\* what the text says of row i: the label is the trimmed column at the label
\* column's index (NoSuchColumn where the row has none), the features are
\* the other columns, trimmed and parsed, in column order
NoSuchColumn == <<"NoSuchColumn">>

RowPoint(c, i) ==
  LET cols   == RowColumns(c.text, i, c.delimiter)
      others == SelectSeq([j \in 1..Len(cols) |-> j],
                          LAMBDA j : j # c.label_col + 1)
  IN  KnnItem(IF c.label_col + 1 <= Len(cols)
                THEN Trim(cols[c.label_col + 1]) ELSE NoSuchColumn,
              [n \in 1..Len(others) |-> ParseF64(Trim(cols[others[n]])).val])

\* C9: a successful from_csv appends, after the points already stored and in
\* line order, one point per line that is not blank after trimming, raw line
\* 0 left out when skip_header is set; each point's label is the trimmed
\* column at index col, its features the other columns, trimmed and parsed.
C9_ImportAppendsRows ==
  (call.op = "from_csv" /\ outcome = "ok") =>
    LET rows == RowIndexes(call.text, call.skip_header)
    IN  items = before \o [n \in 1..Len(rows) |-> RowPoint(call, rows[n])]

====
